---- MODULE Spec2Model ----
(***************************************************************************)
(* Model of UI/src-tauri/src/main.rs: the native shell of the desktop      *)
(* application.  `main` registers ApiState (a mutex around an optional     *)
(* child handle), a setup hook that spawns the backend API server, and a   *)
(* window-event hook that kills the backend when a window is destroyed.    *)
(* The two cfg(debug_assertions) branches (development / packaged) are     *)
(* both modelled; the build mode is fixed in the initial state.            *)
(*                                                                         *)
(* The hooks run on the main thread.  Each hook is split at its lock       *)
(* acquisitions and releases so that the mutex discipline is visible; the  *)
(* variable pc is the position of the main thread.                         *)
(***************************************************************************)
EXTENDS Integers, Sequences, FiniteSets

VARIABLES
  mode,        \* build mode: "dev" (debug_assertions) or "release"
  exists,      \* file system: which <venv>/Scripts/python.exe exist
  open,        \* windows of the application that are not destroyed yet
  pc,          \* position of the main thread
  lock,        \* holder of ApiState.child's mutex: "free" or "main"
  child,       \* content of ApiState.child: None or Some(handle); a handle
               \* is the pid of the process it stands for
  local,       \* `child` local of setup (handle not yet stored)
  childOpt,    \* `child_opt` local of the Destroyed handler
  cmd,         \* the command the backend was launched with
  alive,       \* live processes of the backend's process tree (0 = the
               \* spawned process, 1.. = processes it spawned, transitively)
  nDesc,       \* how many descendants the backend has spawned so far
  spawns,      \* handles returned by successful spawns (history)
  killReqs,    \* kill requests issued, each with its outcome and the
               \* processes of the tree alive when it was issued (history)
  failure,     \* which startup step failed, or "none"
  destroyed,   \* number of Destroyed events whose handler has returned
  otherEvents, \* number of non-Destroyed window events handled
  rx,          \* release: events queued on the sidecar's receiver
  reader       \* release: the async task draining rx has been spawned

vars == <<mode, exists, open, pc, lock, child, local, childOpt, cmd, alive,
          nDesc, spawns, killReqs, failure, destroyed, otherEvents, rx, reader>>

----------------------------------------------------------------------------
(* Bounds of the model *)

MaxPid == 10
MaxWindows == 2
MaxDescendants == 1
MaxOtherEvents == 1
MaxRx == 1

----------------------------------------------------------------------------
(* Values *)

\* Option<T>: None is the empty sequence, Some(x) the one-element sequence.
None == <<>>

Some(x) == <<x>>

Unwrap(opt) == opt[1]

Modes == {"dev", "release"}

Pids == 1..MaxPid

\* Mutation of VenvNames: the candidates in another order.
VenvNamesReordered == <<"venv", "venv310", ".venv">>

\* Try venv310 first, then venv, then .venv
VenvNames == <<"venv310", "venv", ".venv">>

\* env!("CARGO_MANIFEST_DIR"), as path components below the project root.
ManifestDir == <<"UI", "src-tauri">>

\* Path::parent
Parent(p) == SubSeq(p, 1, Len(p) - 1)

\* PathBuf::join
Join(p, c) == Append(p, c)

\* CARGO_MANIFEST_DIR/../../API
ApiDir == Join(Parent(Parent(ManifestDir)), "API")

BarePython == <<"python">>

UvicornArgs == <<"-m", "uvicorn", "app.main:app", "--reload", "--port", "8742">>

SidecarName == "axiome-api"

----------------------------------------------------------------------------
(* Pure helpers *)

\* api_dir.join(v).join("Scripts").join("python.exe")
VenvPython(v) == Join(Join(Join(ApiDir, v), "Scripts"), "python.exe")

\* Iterator::find over the mapped candidate list: the first candidate, in
\* list order, for which p.exists() holds; None when there is none.
RECURSIVE FindFirst(_, _, _)
FindFirst(names, ex, i) ==
  IF i > Len(names) THEN None
  ELSE IF ex[names[i]] THEN Some(VenvPython(names[i]))
  ELSE FindFirst(names, ex, i + 1)

\* .find(|p| p.exists()).unwrap_or_else(|| PathBuf::from("python"))
PythonPath(ex) ==
  LET found == FindFirst(VenvNames, ex, 1)
  IN  IF found = None THEN BarePython ELSE Unwrap(found)

\* The command setup builds in each build mode.
SpawnCommand(m, ex) ==
  IF m = "dev"
  THEN [program |-> PythonPath(ex), args |-> UvicornArgs, cwd |-> ApiDir]
  ELSE [program |-> <<SidecarName>>, args |-> <<>>, cwd |-> None]

DigitChar == <<"0", "1", "2", "3", "4", "5", "6", "7", "8", "9">>

\* u32::to_string: the decimal digits of n, most significant first.
RECURSIVE ToString(_)
ToString(n) ==
  IF n < 10 THEN <<DigitChar[n + 1]>>
  ELSE Append(ToString(n \div 10), DigitChar[(n % 10) + 1])

DigitValue(c) == (CHOOSE i \in 1..10 : DigitChar[i] = c) - 1

\* How taskkill reads the decimal argument of /PID.
RECURSIVE ParsePid(_)
ParsePid(s) ==
  IF Len(s) = 0 THEN 0
  ELSE ParsePid(SubSeq(s, 1, Len(s) - 1)) * 10 + DigitValue(s[Len(s)])

\* The command line the Destroyed handler runs in development mode.
TaskkillArgs(pid) == <<"/PID", ToString(pid), "/T", "/F">>

\* The kill the Destroyed handler issues for a handle: in development mode
\* `taskkill /PID <pid> /T /F` (/T: the process and the processes it
\* started), in packaged mode CommandChild::kill, which kills the one
\* process the handle stands for.
KillRequest(m, pid) ==
  IF m = "dev"
  THEN [via |-> "taskkill", target |-> ParsePid(TaskkillArgs(pid)[2]),
        tree |-> \E i \in 1..Len(TaskkillArgs(pid)) : TaskkillArgs(pid)[i] = "/T"]
  ELSE [via |-> "CommandChild::kill", target |-> pid, tree |-> FALSE]

\* Processes a successful kill request ends, when the spawned process has
\* pid rootPid: nothing if the request names another pid, the whole tree
\* if it covers the tree, else the spawned process alone.
Killed(req, rootPid, live) ==
  IF req.target # rootPid THEN {}
  ELSE IF req.tree THEN live
  ELSE live \cap {0}

\* Mutation of Take: the value is copied out and left in place.
TakeKeeps(opt) == [taken |-> opt, left |-> opt]

\* Option::take: the value taken and the value left behind.
Take(opt) == [taken |-> opt, left |-> None]

----------------------------------------------------------------------------
(* Initial state: ApiState { child: Mutex::new(None) } is managed, nothing *)
(* has run yet.  Only the development build looks at the venv files, so    *)
(* the packaged build starts with none of them.                            *)

VenvSet == {VenvNames[i] : i \in 1..Len(VenvNames)}

Init ==
  /\ mode \in Modes
  /\ exists \in IF mode = "dev" THEN [VenvSet -> BOOLEAN]
                 ELSE {[v \in VenvSet |-> FALSE]}
  /\ \E n \in 1..MaxWindows : open = 1..n
  /\ pc = "init"
  /\ lock = "free"
  /\ child = None
  /\ local = None
  /\ childOpt = None
  /\ cmd = None
  /\ alive = {}
  /\ nDesc = 0
  /\ spawns = <<>>
  /\ killReqs = <<>>
  /\ failure = "none"
  /\ destroyed = 0
  /\ otherEvents = 0
  /\ rx = 0
  /\ reader = FALSE

----------------------------------------------------------------------------
(* setup hook (main.rs 28-82)                                              *)

\* Startup steps that can fail in each build mode: Command::spawn in
\* development mode; Command::new_sidecar and spawn in packaged mode.
SpawnFailures(m) ==
  IF m = "dev" THEN {"python_spawn"} ELSE {"sidecar_create", "sidecar_spawn"}

\* Mutation of SetupSpawn: the backend is spawned again from the event loop.
SetupSpawnAgain ==
  /\ pc \in {"init", "running"}
  /\ \E pid \in Pids :
       /\ local' = Some(pid)
       /\ spawns' = Append(spawns, pid)
  /\ cmd' = Some(SpawnCommand(mode, exists))
  /\ alive' = {0}
  /\ pc' = "s_lock"
  /\ UNCHANGED <<mode, exists, open, lock, child, childOpt, nDesc, killReqs,
                 failure, destroyed, otherEvents, rx, reader>>

\* The spawn succeeds: the OS starts the process and returns its handle.
SetupSpawn ==
  /\ pc = "init"
  /\ \E pid \in Pids :
       /\ local' = Some(pid)
       /\ spawns' = Append(spawns, pid)
  /\ cmd' = Some(SpawnCommand(mode, exists))
  /\ alive' = {0}
  /\ pc' = "s_lock"
  /\ UNCHANGED <<mode, exists, open, lock, child, childOpt, nDesc, killReqs,
                 failure, destroyed, otherEvents, rx, reader>>

\* Mutation of SetupSpawnFail: the error is dropped and setup returns Ok.
SetupSpawnFailIgnored ==
  /\ pc = "init"
  /\ \E f \in SpawnFailures(mode) : failure' = f
  /\ pc' = "s_ret"
  /\ UNCHANGED <<mode, exists, open, lock, child, local, childOpt, cmd, alive,
                 nDesc, spawns, killReqs, destroyed, otherEvents, rx, reader>>

\* The spawn fails: .expect(..) panics, the setup hook never returns and
\* the process ends before the event loop starts.
SetupSpawnFail ==
  /\ pc = "init"
  /\ \E f \in SpawnFailures(mode) : failure' = f
  /\ pc' = "panicked"
  /\ UNCHANGED <<mode, exists, open, lock, child, local, childOpt, cmd, alive,
                 nDesc, spawns, killReqs, destroyed, otherEvents, rx, reader>>

\* state.child.lock().unwrap()
SetupLock ==
  /\ pc = "s_lock"
  /\ lock = "free"
  /\ lock' = "main"
  /\ pc' = "s_store"
  /\ UNCHANGED <<mode, exists, open, child, local, childOpt, cmd, alive, nDesc,
                 spawns, killReqs, failure, destroyed, otherEvents, rx, reader>>

\* Mutation of SetupStore: the handle is dropped instead of stored.
SetupStoreDropped ==
  /\ pc = "s_store"
  /\ local' = None
  /\ pc' = "s_unlock"
  /\ UNCHANGED <<mode, exists, open, lock, child, childOpt, cmd, alive, nDesc,
                 spawns, killReqs, failure, destroyed, otherEvents, rx, reader>>

\* *guard = Some(child): the handle moves from the local into ApiState.
SetupStore ==
  /\ pc = "s_store"
  /\ child' = local
  /\ local' = None
  /\ pc' = "s_unlock"
  /\ UNCHANGED <<mode, exists, open, lock, childOpt, cmd, alive, nDesc, spawns,
                 killReqs, failure, destroyed, otherEvents, rx, reader>>

\* The temporary guard is dropped at the end of the statement.
SetupUnlock ==
  /\ pc = "s_unlock"
  /\ lock' = "free"
  /\ pc' = "s_ret"
  /\ UNCHANGED <<mode, exists, open, child, local, childOpt, cmd, alive, nDesc,
                 spawns, killReqs, failure, destroyed, otherEvents, rx, reader>>

\* Packaged mode spawns the task that drains rx; then Ok(()) and the event
\* loop runs.
SetupReturn ==
  /\ pc = "s_ret"
  /\ reader' = (mode = "release")
  /\ pc' = "running"
  /\ UNCHANGED <<mode, exists, open, lock, child, local, childOpt, cmd, alive,
                 nDesc, spawns, killReqs, failure, destroyed, otherEvents, rx>>

----------------------------------------------------------------------------
(* on_window_event hook (main.rs 83-109)                                   *)

\* A window event other than Destroyed: the `if let` does not match and the
\* handler returns at once.
OtherWindowEvent ==
  /\ pc = "running"
  /\ open # {}
  /\ otherEvents < MaxOtherEvents
  /\ otherEvents' = otherEvents + 1
  /\ UNCHANGED <<mode, exists, open, pc, lock, child, local, childOpt, cmd,
                 alive, nDesc, spawns, killReqs, failure, destroyed, rx, reader>>

\* Window w is destroyed and the handler is entered with the event.
DestroyedEvent ==
  /\ pc = "running"
  /\ \E w \in open : open' = open \ {w}
  /\ pc' = "h_lock"
  /\ UNCHANGED <<mode, exists, lock, child, local, childOpt, cmd, alive, nDesc,
                 spawns, killReqs, failure, destroyed, otherEvents, rx, reader>>

\* state.child.lock().unwrap()
DestroyedLock ==
  /\ pc = "h_lock"
  /\ lock = "free"
  /\ lock' = "main"
  /\ pc' = "h_take"
  /\ UNCHANGED <<mode, exists, open, child, local, childOpt, cmd, alive, nDesc,
                 spawns, killReqs, failure, destroyed, otherEvents, rx, reader>>

\* guard.take()
DestroyedTake ==
  /\ pc = "h_take"
  /\ childOpt' = Take(child).taken
  /\ child' = Take(child).left
  /\ pc' = "h_unlock"
  /\ UNCHANGED <<mode, exists, open, lock, local, cmd, alive, nDesc, spawns,
                 killReqs, failure, destroyed, otherEvents, rx, reader>>

\* Mutation of DestroyedUnlock: the guard lives on past the `let` statement.
DestroyedUnlockLate ==
  /\ pc = "h_unlock"
  /\ pc' = "h_kill"
  /\ UNCHANGED <<mode, exists, open, lock, child, local, childOpt, cmd, alive,
                 nDesc, spawns, killReqs, failure, destroyed, otherEvents, rx,
                 reader>>

\* The temporary guard is dropped at the end of the `let` statement.
DestroyedUnlock ==
  /\ pc = "h_unlock"
  /\ lock' = "free"
  /\ pc' = "h_kill"
  /\ UNCHANGED <<mode, exists, open, child, local, childOpt, cmd, alive, nDesc,
                 spawns, killReqs, failure, destroyed, otherEvents, rx, reader>>

\* Mutation of DestroyedKill: the result of the kill is unwrapped, so a
\* failed kill panics.
DestroyedKillUnwrapped ==
  /\ pc = "h_kill"
  /\ childOpt # None
  /\ \E ok \in (IF 0 \in alive THEN BOOLEAN ELSE {FALSE}) :
       LET pid == Unwrap(childOpt)
           req == KillRequest(mode, pid)
       IN  /\ killReqs' = Append(killReqs, [req |-> req, ok |-> ok, live |-> alive])
           /\ alive' = IF ok THEN alive \ Killed(req, pid, alive) ELSE alive
           /\ pc' = IF ok THEN "h_ret" ELSE "panicked"
  /\ childOpt' = None
  /\ UNCHANGED <<mode, exists, open, lock, child, local, cmd, nDesc, spawns,
                 failure, destroyed, otherEvents, rx, reader>>

\* Mutation of DestroyedKill: the packaged branch drops the handle without
\* killing.
DestroyedKillDevOnly ==
  /\ pc = "h_kill"
  /\ childOpt # None
  /\ \E ok \in (IF 0 \in alive THEN BOOLEAN ELSE {FALSE}) :
       LET pid == Unwrap(childOpt)
           req == KillRequest(mode, pid)
       IN  IF mode = "dev"
           THEN /\ killReqs' = Append(killReqs, [req |-> req, ok |-> ok, live |-> alive])
                /\ alive' = IF ok THEN alive \ Killed(req, pid, alive) ELSE alive
           ELSE UNCHANGED <<killReqs, alive>>
  /\ childOpt' = None
  /\ pc' = "h_ret"
  /\ UNCHANGED <<mode, exists, open, lock, child, local, cmd, nDesc, spawns,
                 failure, destroyed, otherEvents, rx, reader>>

\* if let Some(child) = child_opt { kill }: the kill is issued and waited
\* for; its result is discarded (`let _ =`).  It cannot succeed when the
\* spawned process is gone already.
DestroyedKill ==
  /\ pc = "h_kill"
  /\ childOpt # None
  /\ \E ok \in (IF 0 \in alive THEN BOOLEAN ELSE {FALSE}) :
       LET pid == Unwrap(childOpt)
           req == KillRequest(mode, pid)
       IN  /\ killReqs' = Append(killReqs, [req |-> req, ok |-> ok, live |-> alive])
           /\ alive' = IF ok THEN alive \ Killed(req, pid, alive) ELSE alive
  /\ childOpt' = None
  /\ pc' = "h_ret"
  /\ UNCHANGED <<mode, exists, open, lock, child, local, cmd, nDesc, spawns,
                 failure, destroyed, otherEvents, rx, reader>>

\* child_opt is None: nothing to kill.
DestroyedNoChild ==
  /\ pc = "h_kill"
  /\ childOpt = None
  /\ pc' = "h_ret"
  /\ UNCHANGED <<mode, exists, open, lock, child, local, childOpt, cmd, alive,
                 nDesc, spawns, killReqs, failure, destroyed, otherEvents, rx,
                 reader>>

\* The handler returns to the event loop.
DestroyedReturn ==
  /\ pc = "h_ret"
  /\ destroyed' = destroyed + 1
  /\ pc' = "running"
  /\ UNCHANGED <<mode, exists, open, lock, child, local, childOpt, cmd, alive,
                 nDesc, spawns, killReqs, failure, otherEvents, rx, reader>>

\* run(..) returns once the last window is gone.
AppExit ==
  /\ pc = "running"
  /\ open = {}
  /\ pc' = "exited"
  /\ UNCHANGED <<mode, exists, open, lock, child, local, childOpt, cmd, alive,
                 nDesc, spawns, killReqs, failure, destroyed, otherEvents, rx,
                 reader>>

----------------------------------------------------------------------------
(* Environment: the backend and the task reading its output                *)

\* A live process of the backend's tree starts another process (uvicorn
\* --reload starts its server process; a one-file sidecar starts the
\* unpacked program).
BackendFork ==
  /\ alive # {}
  /\ nDesc < MaxDescendants
  /\ nDesc' = nDesc + 1
  /\ alive' = alive \cup {nDesc + 1}
  /\ UNCHANGED <<mode, exists, open, pc, lock, child, local, childOpt, cmd,
                 spawns, killReqs, failure, destroyed, otherEvents, rx, reader>>

\* A process of the tree ends by itself.
BackendExit ==
  /\ \E p \in alive : alive' = alive \ {p}
  /\ UNCHANGED <<mode, exists, open, pc, lock, child, local, childOpt, cmd,
                 nDesc, spawns, killReqs, failure, destroyed, otherEvents, rx,
                 reader>>

\* Packaged mode: the sidecar writes a line; it is queued on rx.
BackendOutput ==
  /\ mode = "release"
  /\ 0 \in alive
  /\ rx < MaxRx
  /\ rx' = rx + 1
  /\ UNCHANGED <<mode, exists, open, pc, lock, child, local, childOpt, cmd,
                 alive, nDesc, spawns, killReqs, failure, destroyed,
                 otherEvents, reader>>

\* Packaged mode: the async task receives an event and prints it.
ReaderRecv ==
  /\ reader
  /\ rx > 0
  /\ rx' = rx - 1
  /\ UNCHANGED <<mode, exists, open, pc, lock, child, local, childOpt, cmd,
                 alive, nDesc, spawns, killReqs, failure, destroyed,
                 otherEvents, reader>>

----------------------------------------------------------------------------

\* Steps of the main thread inside a hook.
MainStep ==
  \/ SetupLock \/ SetupStore \/ SetupUnlock \/ SetupReturn
  \/ DestroyedLock \/ DestroyedTake \/ DestroyedUnlock
  \/ DestroyedKill \/ DestroyedNoChild \/ DestroyedReturn

Next ==
  \/ SetupSpawn
  \/ SetupSpawnFail
  \/ SetupLock
  \/ SetupStore
  \/ SetupUnlock
  \/ SetupReturn
  \/ OtherWindowEvent
  \/ DestroyedEvent
  \/ DestroyedLock
  \/ DestroyedTake
  \/ DestroyedUnlock
  \/ DestroyedKill
  \/ DestroyedNoChild
  \/ DestroyedReturn
  \/ AppExit
  \/ BackendFork
  \/ BackendExit
  \/ BackendOutput
  \/ ReaderRecv

Spec == Init /\ [][Next]_vars

\* A hook that has started runs to its end: the main thread is not
\* suspended inside setup or inside the window-event handler.
FairSpec == Spec /\ WF_vars(MainStep)

----------------------------------------------------------------------------
(* Properties                                                              *)

\* The handle of the process setup spawned.
Backend == Some(spawns[1])

\* A kill request has been issued that covers the spawned process and every
\* descendant of it alive at that moment.
TreeKillIssued ==
  \E i \in 1..Len(killReqs) :
    LET tree == killReqs[i].live \cup {0}
    IN  Killed(killReqs[i].req, spawns[1], tree) = tree

\* C1: in both build modes, once setup has spawned the backend and the
\* handler of a Destroyed event has returned, a termination request covering
\* the spawned process and every process it spawned has been issued.
C1_TreeKillAfterDestroyed ==
  (spawns # <<>> /\ destroyed >= 1) => TreeKillIssued

\* C2: at most one handle is tracked and at most one backend is spawned per
\* run: the handle is None before setup, a tracked handle is the handle of
\* the one process setup spawned, and no step replaces a tracked handle by
\* another handle.
C2_State ==
  /\ Len(spawns) <= 1
  /\ Len(child) <= 1
  /\ pc = "init" => child = None /\ spawns = <<>>
  /\ child # None => spawns # <<>> /\ child = Backend

\* C2: the state invariant above holds throughout, and a tracked handle is
\* only ever replaced by None.
C2_OneHandle ==
  /\ []C2_State
  /\ [][child # None => child' \in {child, None}]_vars

C2_Witness ==
  /\ pc = "running"
  /\ child # None
  /\ otherEvents > 0
  /\ Len(spawns) = 1

\* C3: when the spawn fails during setup, startup ends in a panic: the
\* application is not running and never was, no window event has been
\* handled, nothing was spawned and the tracked handle is None.
C3_SpawnFailureFatal ==
  failure # "none" =>
    /\ pc = "panicked"
    /\ child = None
    /\ destroyed = 0 /\ otherEvents = 0
    /\ spawns = <<>> /\ alive = {}
    /\ ~reader
    /\ failure \in SpawnFailures(mode)

C3_Witness == failure = "sidecar_spawn" /\ pc = "panicked"

\* C4 as stated: the application is never in the running state with a
\* spawned backend process that is still alive (not killed) while its handle
\* is not tracked.
C4_AliveImpliesTracked ==
  (pc = "running" /\ spawns # <<>> /\ 0 \in alive) => child = Backend

\* C4 as amended: from the end of setup until the first Destroyed event is
\* handled the tracked handle is the handle of the process setup spawned,
\* and the application is never in the running state with a spawned backend
\* for which no kill has been issued and whose handle is not tracked.
C4_TrackedUntilDestroyed ==
  /\ (pc = "running" /\ destroyed = 0) => (spawns # <<>> /\ child = Backend)
  /\ (pc = "running" /\ spawns # <<>> /\ killReqs = <<>>) => child = Backend

C4_Witness ==
  /\ pc = "running"
  /\ destroyed = 0
  /\ otherEvents > 0
  /\ child = Backend
  /\ nDesc > 0

\* The abstract lifecycle state the tracked handle stands for.
Abs ==
  IF child # None THEN "Tracked"
  ELSE IF childOpt # None \/ killReqs # <<>> THEN "Cleared"
  ELSE "NotStarted"

\* The abstract lifecycle: NotStarted -> Tracked -> Cleared.
AbsStep ==
  \/ Abs' = Abs
  \/ Abs = "NotStarted" /\ Abs' = "Tracked" /\ pc = "s_store"
  \/ Abs = "Tracked" /\ Abs' = "Cleared" /\ pc = "h_take"

\* C5: both build modes implement the same lifecycle.  Whatever the mode,
\* the tracked handle moves NotStarted -> Tracked (setup stores it) ->
\* Cleared (the first Destroyed handler takes it and issues one kill), and
\* the same steps are enabled at the same positions.
C5_SameLifecycle ==
  /\ [][AbsStep]_vars
  /\ [](pc = "init" => Abs = "NotStarted" /\ ENABLED SetupSpawn
                                          /\ ENABLED SetupSpawnFail)
  /\ [](pc = "running" /\ destroyed = 0 => Abs = "Tracked")
  /\ [](pc = "running" /\ open # {} => ENABLED DestroyedEvent)
  /\ [](pc = "h_kill" /\ childOpt # None => ENABLED DestroyedKill)
  /\ [](pc \in {"h_ret", "running", "exited"} /\ Abs = "Cleared"
          => Len(killReqs) = 1)
  /\ [](destroyed >= 1 => Abs = "Cleared")

C5_Witness ==
  /\ mode = "release"
  /\ pc = "running"
  /\ Abs = "Cleared"
  /\ destroyed = 1

\* C6: after the first Destroyed event the tracked handle is None for good,
\* a kill is issued at most once per run, later Destroyed events issue no
\* kill and leave the tracked handle alone, and window events other than
\* Destroyed change neither ApiState nor its lock.
C6_TakenOnce ==
  /\ [](destroyed >= 1 => child = None /\ childOpt = None)
  /\ [](Len(killReqs) <= 1)
  /\ [][destroyed >= 1 =>
          child' = None /\ killReqs' = killReqs /\ spawns' = spawns]_vars
  /\ [][otherEvents' # otherEvents =>
          UNCHANGED <<child, lock, childOpt, killReqs, spawns>>]_vars

C6_Witness ==
  /\ destroyed = 2
  /\ pc = "running"
  /\ Len(killReqs) = 1
  /\ otherEvents > 0

\* The reference rule for the interpreter: the first of API/venv310,
\* API/venv, API/.venv whose Scripts/python.exe exists, else "python".
RefPython(ex) ==
  IF ex["venv310"] THEN <<"API", "venv310", "Scripts", "python.exe">>
  ELSE IF ex["venv"] THEN <<"API", "venv", "Scripts", "python.exe">>
  ELSE IF ex[".venv"] THEN <<"API", ".venv", "Scripts", "python.exe">>
  ELSE <<"python">>

\* C7: in development mode the interpreter the backend was launched with is
\* the one the reference rule gives for the files that exist, the arguments
\* are -m uvicorn app.main:app --reload --port 8742 and the working
\* directory is the API directory.
C7_PythonChoice ==
  (mode = "dev" /\ cmd # None) =>
    /\ Unwrap(cmd).program = RefPython(exists)
    /\ Unwrap(cmd).args =
         <<"-m", "uvicorn", "app.main:app", "--reload", "--port", "8742">>
    /\ Unwrap(cmd).cwd = <<"API">>

C7_Witness ==
  /\ mode = "dev"
  /\ cmd # None
  /\ ~exists["venv310"] /\ exists["venv"] /\ exists[".venv"]
  /\ Unwrap(cmd).program = <<"API", "venv", "Scripts", "python.exe">>

\* C8: whether the kill succeeds or fails, the Destroyed handler does not
\* panic and goes on to return to the event loop, the tracked handle is
\* None afterwards, and the kill is not retried.
C8_KillFailureSwallowed ==
  /\ killReqs # <<>> =>
       /\ pc \in {"h_ret", "running", "exited", "h_lock", "h_take",
                  "h_unlock", "h_kill"}
       /\ failure = "none"
       /\ child = None
       /\ Len(killReqs) = 1
  /\ pc = "h_kill" => ENABLED (DestroyedKill \/ DestroyedNoChild)
  /\ pc = "h_ret" => ENABLED DestroyedReturn

C8_Witness ==
  /\ killReqs # <<>>
  /\ ~killReqs[1].ok
  /\ 0 \in alive
  /\ pc = "running"
  /\ destroyed = 2

\* C9: the mutex is held only around the store in setup and the take in the
\* Destroyed handler; it is free while the kill runs and whenever a hook is
\* about to acquire it, and every acquisition is followed by a release.
C9_LockDiscipline ==
  /\ [](lock = "main" <=> pc \in {"s_store", "s_unlock", "h_take", "h_unlock"})
  /\ [](pc \in {"h_kill", "h_ret"} => lock = "free")
  /\ [](pc \in {"s_lock", "h_lock"} => lock = "free")
  /\ (lock = "main") ~> (lock = "free")

C9_Witness ==
  /\ pc = "h_kill"
  /\ childOpt # None
  /\ lock = "free"
  /\ mode = "dev"

====
